---------------------------- MODULE Spec2Model ----------------------------
(* Stock and price synchronisation of seller.py (marketplace A, Ozon) and  *)
(* market.py (marketplace B, Yandex.Market).                               *)
(*                                                                         *)
(* Texts are sequences of one-character strings; a quantity cell is a     *)
(* text or a number (StrCell, IntCell, FloatCell, BoolCell); offer ids     *)
(* (SKUs) are strings.  A raised Python exception is a value of the result *)
(* record (raised |-> TRUE).                                               *)
EXTENDS Integers, Sequences, FiniteSets, TLC

(***************************************************************************)
(* Bounds of the model.                                                    *)
(***************************************************************************)
\* longest list handed to divide in SpecDivide
MaxLen == 4
\* largest positive chunk size handed to divide in SpecDivide
MaxN == 3
\* most records of an inventory in SpecReconcile
MaxInv == 2
\* most SKUs of a small catalog
MaxCat == 2
\* most seconds gone by between two readings of utcnow()
MaxElapsed == 2

(***************************************************************************)
(* Program constants.                                                      *)
(***************************************************************************)
StockForMoreThanTen == 100
SellerStockBatch == 100
SellerPriceBatch == 900
SellerUploadPriceBatch == 1000
SellerPageLimit == 1000
MarketStockBatch == 2000
MarketPriceBatch == 500
MarketPageLimit == 200

(***************************************************************************)
(* Helpers on sequences.                                                   *)
(***************************************************************************)
Min(a, b) == IF a < b THEN a ELSE b

Range(s) == {s[i] : i \in 1..Len(s)}

\* x in lst (Python list membership)
In(x, lst) == \E i \in 1..Len(lst) : lst[i] = x

\* list.remove(x): drops the first occurrence of x (x is in lst)
ListRemove(lst, x) ==
    LET i == CHOOSE k \in 1..Len(lst) :
                 lst[k] = x /\ \A j \in 1..(k - 1) : lst[j] # x
    IN  SubSeq(lst, 1, i - 1) \o SubSeq(lst, i + 1, Len(lst))

RECURSIVE Flatten(_)
Flatten(ss) == IF ss = <<>> THEN <<>> ELSE Head(ss) \o Flatten(Tail(ss))

(***************************************************************************)
(* Texts.                                                                  *)
(***************************************************************************)
Digits == {"0", "1", "2", "3", "4", "5", "6", "7", "8", "9"}

DigitVal(c) ==
    CASE c = "0" -> 0 [] c = "1" -> 1 [] c = "2" -> 2 [] c = "3" -> 3
      [] c = "4" -> 4 [] c = "5" -> 5 [] c = "6" -> 6 [] c = "7" -> 7
      [] c = "8" -> 8 [] c = "9" -> 9

RECURSIVE DigitsValue(_)
DigitsValue(t) ==
    IF t = <<>> THEN 0
    ELSE 10 * DigitsValue(SubSeq(t, 1, Len(t) - 1)) + DigitVal(t[Len(t)])

\* re.sub("[^0-9]", "", t)
OnlyDigits(t) == SelectSeq(t, LAMBDA c : c \in Digits)

\* the whitespace int() strips from both ends of a text: blank, tab, line
\* feed, vertical tab (U+000B), form feed, carriage return, next line
\* (U+0085) and no-break blank (U+00A0); the last three stand in the
\* strings as the characters themselves.  The separators U+001C to U+001F
\* are not stripped.  (Python also strips the blanks from U+1680 on and
\* reads every Unicode decimal digit; no string of the model can hold
\* these characters.)
Blanks ==
    {" ", "\t", "\n", "\f", "\r",
     "",
     "",
     " "}

\* text.strip()
RECURSIVE Strip(_)
Strip(t) ==
    IF t # <<>> /\ t[1] \in Blanks THEN Strip(Tail(t))
    ELSE IF t # <<>> /\ t[Len(t)] \in Blanks THEN Strip(SubSeq(t, 1, Len(t) - 1))
    ELSE t

\* int(text): surrounding whitespace is stripped; then an optional sign and
\* one or more decimal digits, where single underscores may stand between
\* digits; anything else raises ValueError.
PyInt(t) ==
    LET s      == Strip(t)
        signed == Len(s) > 0 /\ s[1] \in {"+", "-"}
        body   == IF signed THEN Tail(s) ELSE s
    IN  IF /\ body # <<>>
           /\ \A i \in 1..Len(body) : body[i] \in Digits \cup {"_"}
           /\ body[1] # "_" /\ body[Len(body)] # "_"
           /\ \A i \in 1..(Len(body) - 1) : ~(body[i] = "_" /\ body[i + 1] = "_")
        THEN [raised |-> FALSE,
              val |-> IF signed /\ s[1] = "-" THEN 0 - DigitsValue(OnlyDigits(body))
                      ELSE DigitsValue(OnlyDigits(body))]
        ELSE [raised |-> TRUE, val |-> 0]

(***************************************************************************)
(* Cells of the quantity column as read_excel hands them over: a text, an  *)
(* int, a float or a bool.  A float is its sign, its whole part and one    *)
(* decimal digit (tenths).                                                 *)
(***************************************************************************)
StrCell(t) == [type |-> "str", text |-> t, neg |-> FALSE, num |-> 0, tenths |-> 0]

IntCell(v) ==
    [type |-> "int", text |-> <<>>, neg |-> v < 0,
     num |-> IF v < 0 THEN 0 - v ELSE v, tenths |-> 0]

FloatCell(neg, whole, tenths) ==
    [type |-> "float", text |-> <<>>, neg |-> neg, num |-> whole, tenths |-> tenths]

BoolCell(b) ==
    [type |-> "bool", text |-> <<>>, neg |-> FALSE,
     num |-> IF b THEN 1 ELSE 0, tenths |-> 0]

DigitChar(d) == CHOOSE c \in Digits : DigitVal(c) = d

\* the decimal digits of a natural number
RECURSIVE DecimalText(_)
DecimalText(v) ==
    IF v < 10 THEN <<DigitChar(v)>>
    ELSE Append(DecimalText(v \div 10), DigitChar(v % 10))

\* str(cell)
PyStr(cell) ==
    LET sign == IF cell.neg THEN <<"-">> ELSE <<>>
    IN  CASE cell.type = "str" -> cell.text
          [] cell.type = "int" -> sign \o DecimalText(cell.num)
          [] cell.type = "float" ->
                sign \o DecimalText(cell.num) \o <<".", DigitChar(cell.tenths)>>
          [] cell.type = "bool" ->
                IF cell.num = 1 THEN <<"T", "r", "u", "e">>
                ELSE <<"F", "a", "l", "s", "e">>

\* int(cell): a text is parsed, a float is truncated towards zero, a bool
\* is 1 or 0
PyIntOf(cell) ==
    IF cell.type = "str" THEN PyInt(cell.text)
    ELSE [raised |-> FALSE, val |-> IF cell.neg THEN 0 - cell.num ELSE cell.num]

\* the else branch of the quantity rule: int() of the cell itself, not of
\* the text count that was compared
StockOfOther(cell) == PyIntOf(cell)

\* mutant of StockOf: the "1" -> 0 rule is forgotten
StockOfWithoutOneRule(cell) ==
    LET count == PyStr(cell)
    IN  IF count = <<">", "1", "0">> THEN [raised |-> FALSE, val |-> StockForMoreThanTen]
        ELSE StockOfOther(cell)

\* the quantity rule of create_stocks: count = str(cell) is compared, the
\* cell is converted
StockOf(cell) ==
    LET count == PyStr(cell)
    IN  IF count = <<">", "1", "0">> THEN [raised |-> FALSE, val |-> StockForMoreThanTen]
        ELSE IF count = <<"1">> THEN [raised |-> FALSE, val |-> 0]
        ELSE StockOfOther(cell)

\* price.split(".")[0]
BeforeDot(t) ==
    IF \E i \in 1..Len(t) : t[i] = "."
    THEN SubSeq(t, 1, (CHOOSE i \in 1..Len(t) :
                          t[i] = "." /\ \A j \in 1..(i - 1) : t[j] # ".") - 1)
    ELSE t

price_conversion(price) == OnlyDigits(BeforeDot(price))

(***************************************************************************)
(* divide: the chunks the generator yields when it is run to its end,      *)
(* list(divide(lst, n)).  range(0, len, n) raises ValueError for n = 0 and *)
(* is empty for n < 0.                                                     *)
(***************************************************************************)
RangeStarts(len, n) ==
    IF n > 0 THEN {i \in 0..(len - 1) : i % n = 0} ELSE {}

\* mutant of Slice: the slice stops one element early
SliceShort(lst, i, j) == SubSeq(lst, i + 1, Min(j, Len(lst)) - 1)

\* lst[i : j]
Slice(lst, i, j) == SubSeq(lst, i + 1, Min(j, Len(lst)))

DivideRaises(n) == n = 0

Divide(lst, n) ==
    [k \in 1..Cardinality(RangeStarts(Len(lst), n)) |->
        Slice(lst, (k - 1) * n, (k - 1) * n + n)]

(***************************************************************************)
(* create_stocks, both variants.  The loop over watch_remnants is the      *)
(* recursion on i; acc carries stocks and the caller's two lists:          *)
(* offer_ids, which the loop depletes in place, and watch_remnants, whose  *)
(* records it only reads.                                                  *)
(***************************************************************************)
SellerStockEntry(sku, stock) == [offer_id |-> sku, stock |-> stock]

MarketStockEntry(sku, stock, warehouse_id, date) ==
    [sku |-> sku, warehouseId |-> warehouse_id,
     items |-> <<[count |-> stock, type |-> "FIT", updatedAt |-> date]>>]

\* variant "seller" or "market"; env carries warehouse_id and date
StockEntry(variant, env, sku, stock) ==
    IF variant = "seller" THEN SellerStockEntry(sku, stock)
    ELSE MarketStockEntry(sku, stock, env.warehouse_id, env.date)

Matches(watch, offer_ids) == In(watch.code, offer_ids)

\* mutant of AfterMatch: the matched code stays in offer_ids
AfterMatchKept(offer_ids, code) == offer_ids

AfterMatch(offer_ids, code) == ListRemove(offer_ids, code)

RECURSIVE StocksLoop(_, _, _, _, _)
StocksLoop(variant, env, watch_remnants, i, acc) ==
    IF i > Len(watch_remnants) THEN acc
    ELSE LET watch == watch_remnants[i]
         IN  IF Matches(watch, acc.offer_ids)
             THEN LET q == StockOf(watch.count)
                  IN  IF q.raised
                      THEN [acc EXCEPT !.raised = TRUE]
                      ELSE StocksLoop(variant, env, watch_remnants, i + 1,
                             [acc EXCEPT
                                !.stocks = Append(@, StockEntry(variant, env, watch.code, q.val)),
                                !.offer_ids = AfterMatch(@, watch.code)])
             ELSE StocksLoop(variant, env, watch_remnants, i + 1, acc)

ZeroFill(variant, env, offer_ids) ==
    [i \in 1..Len(offer_ids) |-> StockEntry(variant, env, offer_ids[i], 0)]

\* mutant of create_stocks: the loop depletes a copy, the caller's list is
\* left as it was
create_stocks_on_copy(variant, env, watch_remnants, offer_ids) ==
    LET r == StocksLoop(variant, env, watch_remnants, 1,
                        [raised |-> FALSE, stocks |-> <<>>, offer_ids |-> offer_ids,
                         watch_remnants |-> watch_remnants])
    IN  IF r.raised THEN [r EXCEPT !.offer_ids = offer_ids]
        ELSE [r EXCEPT !.stocks = @ \o ZeroFill(variant, env, r.offer_ids),
                       !.offer_ids = offer_ids]

\* result: raised, stocks (the returned list), and offer_ids and
\* watch_remnants (the caller's lists as the call leaves them)
create_stocks(variant, env, watch_remnants, offer_ids) ==
    LET r == StocksLoop(variant, env, watch_remnants, 1,
                        [raised |-> FALSE, stocks |-> <<>>, offer_ids |-> offer_ids,
                         watch_remnants |-> watch_remnants])
    IN  IF r.raised THEN r
        ELSE [r EXCEPT !.stocks = @ \o ZeroFill(variant, env, r.offer_ids)]

(***************************************************************************)
(* create_prices, both variants.                                           *)
(***************************************************************************)
SellerPriceEntry(watch) ==
    [raised |-> FALSE,
     entry |-> [auto_action_enabled |-> "UNKNOWN", currency_code |-> "RUB",
                offer_id |-> watch.code, old_price |-> <<"0">>,
                price |-> price_conversion(watch.price)]]

MarketPriceEntry(watch) ==
    LET v == PyInt(price_conversion(watch.price))
    IN  [raised |-> v.raised,
         entry |-> [id |-> watch.code,
                    price |-> [value |-> v.val, currencyId |-> "RUR"]]]

PriceEntry(variant, watch) ==
    IF variant = "seller" THEN SellerPriceEntry(watch) ELSE MarketPriceEntry(watch)

RECURSIVE PricesLoop(_, _, _, _, _)
PricesLoop(variant, watch_remnants, offer_ids, i, acc) ==
    IF i > Len(watch_remnants) THEN acc
    ELSE LET watch == watch_remnants[i]
         IN  IF Matches(watch, offer_ids)
             THEN LET p == PriceEntry(variant, watch)
                  IN  IF p.raised THEN [acc EXCEPT !.raised = TRUE]
                      ELSE PricesLoop(variant, watch_remnants, offer_ids, i + 1,
                             [acc EXCEPT !.prices = Append(@, p.entry)])
             ELSE PricesLoop(variant, watch_remnants, offer_ids, i + 1, acc)

\* result: raised, prices (the returned list), and offer_ids and
\* watch_remnants (the caller's lists as the call leaves them: the loop
\* tests membership in the one and reads the records of the other)
create_prices(variant, watch_remnants, offer_ids) ==
    PricesLoop(variant, watch_remnants, offer_ids, 1,
               [raised |-> FALSE, prices |-> <<>>, offer_ids |-> offer_ids,
                watch_remnants |-> watch_remnants])


(***************************************************************************)
(* State.                                                                  *)
(***************************************************************************)
VARIABLES
    entry,          \* the function the caller runs
    step,           \* position in Program(entry)
    outcome,        \* "running", "returned", or "raised" (exception escaped)
    printed,        \* diagnostic lines printed by main
    ret,            \* value returned by upload_stocks / upload_prices
    source,         \* records of the spreadsheet download_stock fetches
    catalog,        \* marketplace side: the SKUs listed, per target
    pageSize,       \* marketplace side: items served per page, per limit
    watch_remnants,
    cursor,         \* last_id (seller) / page (market); 0 is "" or absent
    product_list,
    offer_ids,
    stocks,
    prices,
    pushed,         \* batches of the running for loop already pushed
    calls,          \* HTTP calls made, in order
    clock,          \* utcnow() as create_stocks last read it, in seconds
    history,        \* SpecReconcile: the create_stocks / create_prices calls made
    lst, n, i, chunks, gen   \* a divide(lst, n) generator and what it yielded

vars == <<entry, step, outcome, printed, ret, source, catalog, pageSize,
          watch_remnants, cursor, product_list, offer_ids, stocks, prices,
          pushed, calls, clock, history, lst, n, i, chunks, gen>>

runVars == <<entry, step, outcome, printed, ret, source, catalog, pageSize,
             watch_remnants, cursor, product_list, offer_ids, stocks, prices,
             pushed, calls>>

divVars == <<history, lst, n, i, chunks, gen>>

(***************************************************************************)
(* The straight-line programs of the entry points.                         *)
(***************************************************************************)
Variant(e) ==
    IF e \in {"seller.main", "seller.upload_stocks", "seller.upload_prices",
               "seller.create"}
    THEN "seller" ELSE "market"

Op(o, t) == [op |-> o, target |-> t]

\* mutant of SellerMainProgram: prices are reconciled and pushed before the
\* stock batches are pushed
SellerMainPricesFirst ==
    <<Op("get_offer_ids", "OZON"), Op("download_stock", "OZON"),
      Op("create_stocks", "OZON"), Op("create_prices", "OZON"),
      Op("update_price", "OZON"), Op("update_stocks", "OZON"),
      Op("return", "OZON")>>

SellerMainProgram ==
    <<Op("get_offer_ids", "OZON"), Op("download_stock", "OZON"),
      Op("create_stocks", "OZON"), Op("update_stocks", "OZON"),
      Op("create_prices", "OZON"), Op("update_price", "OZON"),
      Op("return", "OZON")>>

MarketBranch(t) ==
    <<Op("get_offer_ids", t), Op("create_stocks", t), Op("update_stocks", t),
      Op("upload_prices", t)>>

MarketMainProgram ==
    <<Op("download_stock", "FBS")>> \o MarketBranch("FBS") \o MarketBranch("DBS")
      \o <<Op("return", "DBS")>>

UploadStocksProgram(t) ==
    <<Op("get_offer_ids", t), Op("create_stocks", t), Op("update_stocks", t),
      Op("return", t)>>

UploadPricesProgram(t) ==
    <<Op("get_offer_ids", t), Op("create_prices", t), Op("update_price", t),
      Op("return", t)>>

Program(e) ==
    CASE e = "seller.main" -> SellerMainProgram
      [] e = "market.main" -> MarketMainProgram
      [] e = "seller.upload_stocks" -> UploadStocksProgram("OZON")
      [] e = "seller.upload_prices" -> UploadPricesProgram("OZON")
      [] e = "market.upload_stocks" -> UploadStocksProgram("FBS")
      [] e = "market.upload_prices" -> UploadPricesProgram("FBS")

\* the first step of main's try block; the upload functions have none
TryFrom(e) ==
    CASE e = "seller.main" -> 1
      [] e = "market.main" -> 2
      [] OTHER -> Len(Program(e)) + 1

InTry(e, s) == s >= TryFrom(e)

\* the except clauses of main
Diagnostic(exc) ==
    CASE exc = "ReadTimeout" -> "timeout"
      [] exc = "ConnectionError" -> "connection error"
      [] OTHER -> "ERROR_2"

StockBatch(e) == IF Variant(e) = "seller" THEN SellerStockBatch ELSE MarketStockBatch

PriceBatch(e) ==
    CASE e = "seller.main" -> SellerPriceBatch
      [] e = "seller.upload_prices" -> SellerUploadPriceBatch
      [] OTHER -> MarketPriceBatch

PageLimit(e) == IF Variant(e) = "seller" THEN SellerPageLimit ELSE MarketPageLimit

\* mutant of Handle: the exception is swallowed where it is raised and the
\* run goes on
HandleAndGoOn(e, s, exc) == [outcome |-> "running", printed |-> <<>>]

\* answer to an exception raised at step s
Handle(e, s, exc) ==
    IF InTry(e, s)
    THEN [outcome |-> "returned", printed |-> <<Diagnostic(exc)>>]
    ELSE [outcome |-> "raised", printed |-> <<>>]

pc == IF outcome = "running" THEN Program(entry)[step].op ELSE "end"

target == Program(entry)[step].target

Env(t, date) == [warehouse_id |-> t, date |-> date]

\* a finished HTTP call: cursor is the last_id / page_token a page request
\* passed, index the place of a pushed batch in list(divide(...)), from 0
Call(o, t, c, k, b, ok) ==
    [op |-> o, target |-> t, cursor |-> c, index |-> k, batch |-> b, ok |-> ok]

(***************************************************************************)
(* The marketplaces: a catalog served page by page, consistently.          *)
(***************************************************************************)
ServedPage(cat, from, limit, size) ==
    SubSeq(cat, from + 1, Min(Len(cat), from + Min(limit, size)))

\* marketplace A: result of v2/product/list for last_id
SellerServe(cat, last_id, limit, size) ==
    LET page == ServedPage(cat, last_id, limit, size)
    IN  [items |-> [k \in 1..Len(page) |-> [offer_id |-> page[k]]],
         total |-> Len(cat),
         last_id |-> last_id + Len(page)]

\* marketplace B: result of offer-mapping-entries for page_token
MarketServe(cat, page_token, limit, size) ==
    LET page == ServedPage(cat, page_token, limit, size)
        upto == page_token + Len(page)
    IN  [offerMappingEntries |->
            [k \in 1..Len(page) |-> [offer |-> [shopSku |-> page[k]]]],
         paging |-> [nextPageToken |-> IF upto < Len(cat) THEN upto ELSE 0]]


(***************************************************************************)
(* Inputs of the runs.                                                     *)
(***************************************************************************)
\* a record of the spreadsheet: count is the cell of the quantity column
Watch(c, q, p) == [code |-> c, count |-> q, price |-> p]

A10 == Watch("A", StrCell(<<">", "1", "0">>), <<"5", "'", "9", "9", "0", ".", "0", "0">>)

A7 == Watch("A", IntCell(7), <<"1", "2", ".", "5", "0">>)

B1 == Watch("B", StrCell(<<"1">>), <<"x", ".", "5">>)

Babc == Watch("B", StrCell(<<"a", "b", "c">>), <<"3">>)

One25 == Watch("1", IntCell(25), <<"4", "0">>)

SeqsUpTo(S, k) == UNION {[1..m -> S] : m \in 0..k}

NoDuplicates(s) == \A a, b \in 1..Len(s) : a # b => s[a] # s[b]

\* the spreadsheets of the runs
RunInventories ==
    { <<>>, <<A10>>, <<A10, B1>>, <<A7, A10>>, <<One25, A7>>, <<A7, Babc>> }

SmallCatalogs == {c \in SeqsUpTo({"A", "B", "1"}, MaxCat) : NoDuplicates(c)}

\* a catalog one longer than a stock batch: <<"1", "2", ...>>
BigCatalog(e) == [k \in 1..(StockBatch(e) + 1) |-> ToString(k)]

Catalogs(e) == SmallCatalogs \cup {BigCatalog(e)}

\* the DBS campaign's catalog beside an FBS catalog c1: the two campaigns
\* of a run list catalogs of the same scale
DbsCatalogs(e, c1) ==
    IF e # "market.main" THEN {<<>>}
    ELSE IF c1 \in SmallCatalogs THEN SmallCatalogs ELSE {c1}

Entries == {"seller.main", "market.main", "seller.upload_stocks",
            "seller.upload_prices", "market.upload_stocks", "market.upload_prices"}

HttpErrors == {"ReadTimeout", "ConnectionError", "HTTPError"}

DivIdle ==
    history = <<>> /\ lst = <<>> /\ n = 1 /\ i = 0 /\ chunks = <<>> /\ gen = "unused"

\* the page sizes a marketplace serves a catalog with
PageSizes(e, cat) == IF Len(cat) > MaxCat THEN {PageLimit(e)} ELSE {1, PageLimit(e)}

Init ==
    /\ entry \in Entries
    /\ step = 1
    /\ outcome = "running"
    /\ printed = <<>>
    /\ ret = "None"
    /\ source \in RunInventories
    /\ \E c1 \in Catalogs(entry) :
       \E c2 \in DbsCatalogs(entry, c1) :
          /\ catalog = [OZON |-> IF Variant(entry) = "seller" THEN c1 ELSE <<>>,
                        FBS |-> IF Variant(entry) = "market" THEN c1 ELSE <<>>,
                        DBS |-> c2]
          /\ pageSize \in PageSizes(entry, c1 \o c2)
    /\ watch_remnants = IF entry \in {"seller.main", "market.main"} THEN <<>> ELSE source
    /\ cursor = 0
    /\ product_list = <<>>
    /\ offer_ids = <<>>
    /\ stocks = <<>>
    /\ prices = <<>>
    /\ pushed = 0
    /\ calls = <<>>
    /\ clock = 0
    /\ DivIdle

(***************************************************************************)
(* Steps of a run.                                                         *)
(***************************************************************************)
Raise(exc) ==
    LET h == Handle(entry, step, exc)
    IN  /\ outcome' = h.outcome
        /\ printed' = printed \o h.printed
        /\ UNCHANGED <<entry, step, ret>>

Advance == step' = step + 1 /\ UNCHANGED <<entry, outcome, printed, ret>>

Stay == UNCHANGED <<entry, step, outcome, printed, ret>>

\* mutant of SellerDone: the loop breaks after the first page
SellerDoneAtOnce(total, items) == TRUE

\* the break conditions of the two get_offer_ids loops
SellerDone(total, items) == total = Len(items)

MarketDone(page) == page = 0

SellerNextCursor(some_prod) == some_prod.last_id

MarketNextCursor(some_prod) == some_prod.paging.nextPageToken

\* the while loop of get_offer_ids run to its break, every call succeeding:
\* the product_list it has built (so_far on the way)
RECURSIVE ProductListLoop(_, _, _, _, _)
ProductListLoop(variant, cat, size, page, so_far) ==
    IF variant = "seller"
    THEN LET some_prod == SellerServe(cat, page, SellerPageLimit, size)
             pl == so_far \o some_prod.items
         IN  IF SellerDone(some_prod.total, pl) THEN pl
             ELSE ProductListLoop(variant, cat, size, SellerNextCursor(some_prod), pl)
    ELSE LET some_prod == MarketServe(cat, page, MarketPageLimit, size)
             pl == so_far \o some_prod.offerMappingEntries
         IN  IF MarketDone(MarketNextCursor(some_prod)) THEN pl
             ELSE ProductListLoop(variant, cat, size, MarketNextCursor(some_prod), pl)

\* get_offer_ids: a new list of the offer ids of the fetched products
get_offer_ids(variant, cat, size) ==
    LET pl == ProductListLoop(variant, cat, size, 0, <<>>)
    IN  [k \in 1..Len(pl) |->
            IF variant = "seller" THEN pl[k].offer_id ELSE pl[k].offer.shopSku]

\* one get_product_list call that succeeds, and the rest of the loop body;
\* on break, the rest of get_offer_ids
GetProductList ==
    /\ pc = "get_offer_ids"
    /\ calls' = Append(calls, Call("get_product_list", target, cursor, 0, <<>>, TRUE))
    /\ IF Variant(entry) = "seller"
       THEN LET some_prod == SellerServe(catalog[target], cursor, SellerPageLimit, pageSize)
                pl == product_list \o some_prod.items
            IN  IF SellerDone(some_prod.total, pl)
                THEN /\ offer_ids' = [k \in 1..Len(pl) |-> pl[k].offer_id]
                     /\ product_list' = <<>> /\ cursor' = 0
                     /\ Advance
                ELSE /\ product_list' = pl
                     /\ cursor' = SellerNextCursor(some_prod)
                     /\ UNCHANGED offer_ids
                     /\ Stay
       ELSE LET some_prod == MarketServe(catalog[target], cursor, MarketPageLimit, pageSize)
                pl == product_list \o some_prod.offerMappingEntries
                page == MarketNextCursor(some_prod)
            IN  IF MarketDone(page)
                THEN /\ offer_ids' = [k \in 1..Len(pl) |-> pl[k].offer.shopSku]
                     /\ product_list' = <<>> /\ cursor' = 0
                     /\ Advance
                ELSE /\ product_list' = pl
                     /\ cursor' = page
                     /\ UNCHANGED offer_ids
                     /\ Stay
    /\ UNCHANGED <<source, catalog, pageSize, watch_remnants, stocks, prices, pushed, clock>>
    /\ UNCHANGED divVars

DownloadStock ==
    /\ pc = "download_stock"
    /\ watch_remnants' = source
    /\ calls' = Append(calls, Call("download_stock", target, 0, 0, <<>>, TRUE))
    /\ Advance
    /\ UNCHANGED <<source, catalog, pageSize, cursor, product_list, offer_ids,
                   stocks, prices, pushed, clock>>
    /\ UNCHANGED divVars

\* seconds gone by between two readings of utcnow() in one run: the HTTP
\* calls made in between take time, any number of seconds
Elapsed == 0..MaxElapsed

\* market.create_stocks reads utcnow() anew in every call; seller.create_stocks
\* reads no clock
CreateStocks ==
    /\ pc = "create_stocks"
    /\ \E d \in IF Variant(entry) = "market" THEN Elapsed ELSE {0} :
          LET date == clock + d
              r == create_stocks(Variant(entry), Env(target, date),
                                 watch_remnants, offer_ids)
          IN  /\ clock' = date
              /\ offer_ids' = r.offer_ids
              /\ watch_remnants' = r.watch_remnants
              /\ IF r.raised
                 THEN Raise("ValueError") /\ UNCHANGED stocks
                 ELSE stocks' = r.stocks /\ Advance
    /\ pushed' = 0
    /\ UNCHANGED <<source, catalog, pageSize, cursor, product_list, prices, calls>>
    /\ UNCHANGED divVars

CreatePrices ==
    /\ pc = "create_prices"
    /\ LET r == create_prices(Variant(entry), watch_remnants, offer_ids)
       IN  /\ offer_ids' = r.offer_ids
           /\ watch_remnants' = r.watch_remnants
           /\ IF r.raised
              THEN Raise("ValueError") /\ UNCHANGED prices
              ELSE prices' = r.prices /\ Advance
    /\ pushed' = 0
    /\ UNCHANGED <<source, catalog, pageSize, cursor, product_list, stocks, calls, clock>>
    /\ UNCHANGED divVars

\* list(divide(...)) of the running for loop
Batches ==
    IF pc = "update_stocks" THEN Divide(stocks, StockBatch(entry))
    ELSE IF pc = "update_price" THEN Divide(prices, PriceBatch(entry))
    ELSE <<>>

\* one successful update_stocks / update_price call of the for loop
UpdateBatch ==
    /\ pc \in {"update_stocks", "update_price"}
    /\ pushed < Len(Batches)
    /\ calls' = Append(calls, Call(pc, target, 0, pushed, Batches[pushed + 1], TRUE))
    /\ pushed' = pushed + 1
    /\ Stay
    /\ UNCHANGED <<source, catalog, pageSize, watch_remnants, cursor, product_list,
                   offer_ids, stocks, prices, clock>>
    /\ UNCHANGED divVars

\* the for loop is exhausted
LoopEnds ==
    /\ pc \in {"update_stocks", "update_price"}
    /\ pushed = Len(Batches)
    /\ pushed' = 0
    /\ Advance
    /\ UNCHANGED <<source, catalog, pageSize, watch_remnants, cursor, product_list,
                   offer_ids, stocks, prices, calls, clock>>
    /\ UNCHANGED divVars

\* market.main calls the coroutine function upload_prices without awaiting
\* it: the coroutine object is dropped and its body never runs
UploadPricesNotAwaited ==
    /\ pc = "upload_prices"
    /\ Advance
    /\ UNCHANGED <<source, catalog, pageSize, watch_remnants, cursor, product_list,
                   offer_ids, stocks, prices, pushed, calls, clock>>
    /\ UNCHANGED divVars

NotEmpty(ss) ==
    SelectSeq(ss, LAMBDA stock :
        IF Variant(entry) = "seller" THEN stock.stock # 0 ELSE stock.items[1].count # 0)

Return ==
    /\ pc = "return"
    /\ outcome' = "returned"
    /\ ret' = CASE entry \in {"seller.upload_stocks", "market.upload_stocks"} ->
                     [not_empty |-> NotEmpty(stocks), stocks |-> stocks]
                [] entry \in {"seller.upload_prices", "market.upload_prices"} ->
                     [prices |-> prices]
                [] OTHER -> "None"
    /\ UNCHANGED <<entry, step, printed>>
    /\ UNCHANGED <<source, catalog, pageSize, watch_remnants, cursor, product_list,
                   offer_ids, stocks, prices, pushed, calls, clock>>
    /\ UNCHANGED divVars

\* the HTTP call of the current step fails: raise_for_status or the
\* transport raises
HttpFails ==
    /\ \/ pc \in {"get_offer_ids", "download_stock"}
       \/ pc \in {"update_stocks", "update_price"} /\ pushed < Len(Batches)
    /\ \E exc \in HttpErrors :
          /\ calls' = Append(calls,
                 Call(IF pc = "get_offer_ids" THEN "get_product_list" ELSE pc, target,
                      cursor, pushed,
                      IF pc \in {"update_stocks", "update_price"}
                      THEN Batches[pushed + 1] ELSE <<>>,
                      FALSE))
          /\ Raise(exc)
    /\ UNCHANGED <<source, catalog, pageSize, watch_remnants, cursor, product_list,
                   offer_ids, stocks, prices, pushed, clock>>
    /\ UNCHANGED divVars

Next ==
    \/ GetProductList
    \/ DownloadStock
    \/ CreateStocks
    \/ CreatePrices
    \/ UpdateBatch
    \/ LoopEnds
    \/ UploadPricesNotAwaited
    \/ Return
    \/ HttpFails

Spec == Init /\ [][Next]_vars


(***************************************************************************)
(* SpecDivide: one divide(lst, n) generator, advanced by next().           *)
(***************************************************************************)
NoCatalog == [OZON |-> <<>>, FBS |-> <<>>, DBS |-> <<>>]

RunIdle ==
    /\ step = 1 /\ outcome = "idle" /\ printed = <<>> /\ ret = "None"
    /\ source = <<>>
    /\ pageSize = 1 /\ cursor = 0 /\ product_list = <<>>
    /\ stocks = <<>> /\ prices = <<>> /\ pushed = 0 /\ calls = <<>>

\* chunk sizes tried: the positive ones and the invalid ones
ChunkSizes == {0 - 2, 0 - 1, 0} \cup (1..MaxN)

DivInit ==
    /\ entry = "divide"
    /\ RunIdle
    /\ catalog = NoCatalog
    /\ watch_remnants = <<>> /\ offer_ids = <<>> /\ clock = 0 /\ history = <<>>
    /\ lst \in SeqsUpTo({"a", "b"}, MaxLen)
    /\ n \in ChunkSizes
    /\ i = 0
    /\ chunks = <<>>
    /\ gen = "created"

\* i is in range(0, len, n), given that n # 0
InRange(k, len, m) == IF m > 0 THEN k < len ELSE k > len

\* the first next() evaluates range(0, len(lst), n): ValueError for n = 0
DivideRaise ==
    /\ gen = "created"
    /\ DivideRaises(n)
    /\ gen' = "raised"
    /\ UNCHANGED <<lst, n, i, chunks, history>>
    /\ UNCHANGED runVars /\ UNCHANGED clock

\* next() runs the loop body once: yield lst[i : i + n]
DivideYield ==
    /\ gen \in {"created", "suspended"}
    /\ ~DivideRaises(n)
    /\ InRange(i, Len(lst), n)
    /\ chunks' = Append(chunks, Slice(lst, i, i + n))
    /\ i' = i + n
    /\ gen' = "suspended"
    /\ UNCHANGED <<lst, n, history>>
    /\ UNCHANGED runVars /\ UNCHANGED clock

\* next() finds the range exhausted: StopIteration
DivideStop ==
    /\ gen \in {"created", "suspended"}
    /\ ~DivideRaises(n)
    /\ ~InRange(i, Len(lst), n)
    /\ gen' = "done"
    /\ UNCHANGED <<lst, n, i, chunks, history>>
    /\ UNCHANGED runVars /\ UNCHANGED clock

DivNext == DivideRaise \/ DivideYield \/ DivideStop

SpecDivide == DivInit /\ [][DivNext]_vars

(***************************************************************************)
(* SpecReconcile: a caller makes a first and a second reconciliation call  *)
(* on one inventory, each on the offer_ids list it holds or on a freshly   *)
(* fetched one.                                                            *)
(***************************************************************************)
Rounds == <<"first", "second">>

RecWatches ==
    { Watch("A", q[1], q[2]) :
        q \in { << StrCell(<<">", "1", "0">>),
                   <<"5", "'", "9", "9", "0", ".", "0", "0">> >>,
                << StrCell(<<"1">>), <<"x", ".", "5">> >>,
                << IntCell(7), <<"1", "2", ".", "5", "0">> >>,
                << StrCell(<<"", "1", "_", "0", "\r">>), <<"1", "2", ".", "5", "0">> >>,
                << FloatCell(FALSE, 1, 0), <<"3">> >>,
                << StrCell(<<"a", "b", "c">>), <<"3">> >> } }
    \cup {B1, Babc}

RecInventories == SeqsUpTo(RecWatches, MaxInv)

\* listings that name a SKU twice
RepeatedCatalogs == { <<"A", "A">>, <<"A", "B", "A">> }

RecCatalogs ==
    {c \in SeqsUpTo({"A", "B", "C"}, MaxCat) : NoDuplicates(c)} \cup RepeatedCatalogs

RecTarget == IF Variant(entry) = "seller" THEN "OZON" ELSE "FBS"

RecInit ==
    /\ entry \in {"seller.create", "market.create"}
    /\ RunIdle
    /\ DivIdle
    /\ watch_remnants \in RecInventories
    /\ \E c \in RecCatalogs :
          /\ catalog = [NoCatalog EXCEPT ![RecTarget] = c]
          /\ offer_ids = get_offer_ids(Variant(entry), c, pageSize)
    /\ clock = 0

\* the second call may come any number of seconds later, and on a
\* re-fetched catalog
Later == IF Rounds[step] = "first" THEN {0} ELSE Elapsed

Refetched == IF Rounds[step] = "first" THEN {FALSE} ELSE {FALSE, TRUE}

\* mutant of FetchAnew: no request is made, the caller goes on with the
\* list it holds
FetchSkipped == offer_ids

\* offer_ids = get_offer_ids(...): the caller fetches the catalog anew
FetchAnew == get_offer_ids(Variant(entry), catalog[RecTarget], pageSize)

\* what one call did: the list it was given, and what it returned and left
Reconciled(o, fresh, date, ids, r, payload) ==
    [op |-> o, fresh |-> fresh, date |-> date, offer_ids_in |-> ids,
     raised |-> r.raised, payload |-> payload, offer_ids_out |-> r.offer_ids]

CallCreateStocks ==
    /\ step <= Len(Rounds)
    /\ \E fresh \in Refetched, d \in Later :
          LET ids == IF fresh THEN FetchAnew ELSE offer_ids
              date == clock + d
              r == create_stocks(Variant(entry), Env(RecTarget, date),
                                 watch_remnants, ids)
          IN  /\ offer_ids' = r.offer_ids
              /\ watch_remnants' = r.watch_remnants
              /\ stocks' = IF r.raised THEN stocks ELSE r.stocks
              /\ clock' = date
              /\ history' = Append(history,
                    Reconciled("create_stocks", fresh, date, ids, r, r.stocks))
    /\ step' = step + 1
    /\ UNCHANGED <<entry, outcome, printed, ret, source, catalog, pageSize,
                   cursor, product_list, prices, pushed, calls>>
    /\ UNCHANGED <<lst, n, i, chunks, gen>>

CallCreatePrices ==
    /\ step <= Len(Rounds)
    /\ \E fresh \in Refetched, d \in Later :
          LET ids == IF fresh THEN FetchAnew ELSE offer_ids
              r == create_prices(Variant(entry), watch_remnants, ids)
          IN  /\ offer_ids' = r.offer_ids
              /\ watch_remnants' = r.watch_remnants
              /\ prices' = IF r.raised THEN prices ELSE r.prices
              /\ clock' = clock + d
              /\ history' = Append(history,
                    Reconciled("create_prices", fresh, clock + d, ids, r, r.prices))
    /\ step' = step + 1
    /\ UNCHANGED <<entry, outcome, printed, ret, source, catalog, pageSize,
                   cursor, product_list, stocks, pushed, calls>>
    /\ UNCHANGED <<lst, n, i, chunks, gen>>

RecNext == CallCreateStocks \/ CallCreatePrices

SpecReconcile == RecInit /\ [][RecNext]_vars


(***************************************************************************)
(* Claims about create_stocks (SpecReconcile).                             *)
(***************************************************************************)
SkuOf(e) == IF Variant(entry) = "seller" THEN e.offer_id ELSE e.sku

QtyOf(e) == IF Variant(entry) = "seller" THEN e.stock ELSE e.items[1].count

\* the rule table of the quantity cells, written out: ">10" is 100, "1" is
\* 0, any other number is that integer ("1_0" between a vertical tab and a
\* carriage return reads as 10, the float 1.0
\* as 1)
TableQty(cell) ==
    CASE cell = StrCell(<<">", "1", "0">>) -> 100
      [] cell = StrCell(<<"1">>) -> 0
      [] cell = IntCell(7) -> 7
      [] cell = IntCell(25) -> 25
      [] cell = StrCell(<<"", "1", "_", "0", "\r">>) -> 10
      [] cell = FloatCell(FALSE, 1, 0) -> 1
      [] OTHER -> 0 - 1

Codes(inv) == {inv[k].code : k \in 1..Len(inv)}

FirstWith(inv, code) ==
    inv[CHOOSE k \in 1..Len(inv) :
            inv[k].code = code /\ \A j \in 1..(k - 1) : inv[j].code # code]

StockCalls == {k \in 1..Len(history) :
                  history[k].op = "create_stocks" /\ ~history[k].raised}

\* C1: create_stocks returns entries whose SKU set is exactly the catalog
\* SKU set, and a code of the inventory alone is in no entry; when the
\* catalog is a set of SKUs (none listed twice), a SKU of inventory and
\* catalog carries the table quantity of an inventory record with that
\* code and a SKU of the catalog alone carries 0.
C1_StocksCoverCatalog ==
    \A k \in StockCalls :
       LET h == history[k]
           out == h.payload
       IN  /\ {SkuOf(out[j]) : j \in 1..Len(out)} = Range(h.offer_ids_in)
           /\ NoDuplicates(h.offer_ids_in) =>
                 \A j \in 1..Len(out) :
                    IF SkuOf(out[j]) \in Codes(watch_remnants)
                    THEN \E w \in 1..Len(watch_remnants) :
                            /\ watch_remnants[w].code = SkuOf(out[j])
                            /\ QtyOf(out[j]) = TableQty(watch_remnants[w].count)
                    ELSE QtyOf(out[j]) = 0
           /\ \A c \in Codes(watch_remnants) \ Range(h.offer_ids_in) :
                 \A j \in 1..Len(out) : SkuOf(out[j]) # c

\* the scenario of the specification: A matched with ">10", B not listed,
\* C listed and absent from the inventory
C1_Witness ==
    \E k \in StockCalls :
       LET h == history[k]
       IN  /\ h.offer_ids_in = <<"A", "C">>
           /\ Codes(watch_remnants) = {"A", "B"}
           /\ Len(h.payload) = 2
           /\ SkuOf(h.payload[1]) = "A" /\ QtyOf(h.payload[1]) = 100
           /\ SkuOf(h.payload[2]) = "C" /\ QtyOf(h.payload[2]) = 0

\* how often the catalog lists the SKU
Listings(ids, s) == Cardinality({a \in 1..Len(ids) : ids[a] = s})

\* C2: every SKU of the catalog is in exactly one stock entry (one entry
\* for each time the catalog lists it), also when the inventory repeats a
\* code: the first record with the code gives the quantity of a SKU listed
\* once, the later ones add no entry.
C2_ExactlyOneEntryFirstWins ==
    \A k \in StockCalls :
       LET h == history[k]
           out == h.payload
       IN  /\ Len(out) = Len(h.offer_ids_in)
           /\ \A s \in Range(h.offer_ids_in) :
                 /\ Cardinality({j \in 1..Len(out) : SkuOf(out[j]) = s})
                       = Listings(h.offer_ids_in, s)
                 /\ (Listings(h.offer_ids_in, s) = 1 /\ s \in Codes(watch_remnants)) =>
                       \A j \in 1..Len(out) :
                          SkuOf(out[j]) = s =>
                             QtyOf(out[j]) = TableQty(FirstWith(watch_remnants, s).count)

\* a listed code twice in the inventory, with two different quantities
C2_Witness ==
    \E k \in StockCalls :
       /\ Len(watch_remnants) = 2
       /\ watch_remnants[1].code = watch_remnants[2].code
       /\ TableQty(watch_remnants[1].count) # TableQty(watch_remnants[2].count)
       /\ watch_remnants[1].code \in Range(history[k].offer_ids_in)
       /\ NoDuplicates(history[k].offer_ids_in)
       /\ Len(history[k].payload) = 2


(***************************************************************************)
(* Claims about the runs (Spec).                                           *)
(***************************************************************************)
IsMain == entry \in {"seller.main", "market.main"}

\* main returned and no exception was raised on the way
CleanReturn == outcome = "returned" /\ printed = <<>>

CallsOf(o, t) == SelectSeq(calls, LAMBDA c : c.op = o /\ c.target = t)

OkCallsOf(o, t) == SelectSeq(calls, LAMBDA c : c.op = o /\ c.target = t /\ c.ok)

PriceSku(e) == IF Variant(entry) = "seller" THEN e.offer_id ELSE e.id

\* the inventory codes listed in the catalog of target t
Matched(t) == Codes(source) \cap Range(catalog[t])

\* C3: a seller.main run in which every call succeeds pushes, after the
\* stock batches, price batches holding an entry for every inventory
\* record whose code is in the catalog fetched at the start, and no other.
C3_SellerMainPushesMatchedPrices ==
    (entry = "seller.main" /\ CleanReturn) =>
        LET sent == Flatten([k \in 1..Len(OkCallsOf("update_price", "OZON")) |->
                                OkCallsOf("update_price", "OZON")[k].batch])
        IN  {PriceSku(sent[k]) : k \in 1..Len(sent)} = Matched("OZON")

\* C4: a market.main run in which every call succeeds calls update_price,
\* for FBS and then for DBS, once for each chunk of at most 500 price
\* entries of the target's matched SKUs.
C4_MarketMainPushesPriceChunks ==
    (entry = "market.main" /\ CleanReturn) =>
        \A t \in {"FBS", "DBS"} :
           LET want == create_prices("market", source, catalog[t])
               sent == OkCallsOf("update_price", t)
           IN  ~want.raised =>
                  [k \in 1..Len(sent) |-> sent[k].batch]
                     = Divide(want.prices, MarketPriceBatch)


Failed(k) == ~calls[k].ok

\* the j-th push of a kind and target carries chunk j of the payload
InChunkOrder(o, t) ==
    \A j \in 1..Len(CallsOf(o, t)) : CallsOf(o, t)[j].index = j - 1

\* C5: a failed HTTP call ends its branch: it is not retried, no later
\* page fetch or batch push of the branch is made, nothing is called to
\* undo the batches already pushed, and no batch is pushed twice.
C5_FailureEndsBranch ==
    /\ \A k \in 1..Len(calls) :
          Failed(k) =>
             /\ outcome # "running"
             /\ \A m \in (k + 1)..Len(calls) : calls[m].target # calls[k].target
    /\ \A o \in {"update_stocks", "update_price"}, t \in {"OZON", "FBS", "DBS"} :
          InChunkOrder(o, t)

\* a batch was pushed, the next push failed, and the run is over
C5_Witness ==
    /\ Len(calls) >= 2
    /\ Failed(Len(calls))
    /\ calls[Len(calls)].op = "update_stocks"
    /\ calls[Len(calls) - 1].op = "update_stocks"
    /\ calls[Len(calls) - 1].ok
    /\ outcome = "returned"

\* C6: in market.main, a failed call of the FBS branch does not keep the
\* DBS branch from being attempted: its catalog fetch is still made.
C6_DbsAttemptedAfterFbsFailure ==
    (/\ entry = "market.main"
     /\ outcome # "running"
     /\ \E k \in 1..Len(calls) :
           /\ Failed(k) /\ calls[k].target = "FBS"
           /\ calls[k].op \in {"get_product_list", "update_stocks", "update_price"})
    => CallsOf("get_product_list", "DBS") # <<>>

\* C7: no failure escapes main: an exception raised by the download, a
\* catalog fetch, the reconciliation or a push is caught in main, one
\* diagnostic line is printed and main returns.
C7_NoFailureEscapesMain ==
    IsMain =>
       /\ outcome # "raised"
       /\ (outcome = "returned" /\ \E k \in 1..Len(calls) : Failed(k)) =>
              Len(printed) = 1


(***************************************************************************)
(* Claims about divide (SpecDivide).                                       *)
(***************************************************************************)
Ceil(a, b) == (a + b - 1) \div b

\* C8: for a positive n the chunks of divide(S, n), concatenated in order,
\* are S; there are ceil(len(S)/n) of them; each has length n but the last,
\* whose length is in 1..n; an empty S yields no chunk.
C8_DivideChunks ==
    (n > 0 /\ gen = "done") =>
        /\ Flatten(chunks) = lst
        /\ Len(chunks) = Ceil(Len(lst), n)
        /\ \A k \in 1..(Len(chunks) - 1) : Len(chunks[k]) = n
        /\ chunks # <<>> => Len(chunks[Len(chunks)]) \in 1..n
        /\ lst = <<>> => chunks = <<>>
        /\ chunks = Divide(lst, n)

\* a list whose length is no multiple of n, divided to the end
C8_Witness ==
    /\ gen = "done" /\ n = 3 /\ Len(lst) = 4
    /\ Len(chunks) = 2 /\ Len(chunks[2]) = 1

(***************************************************************************)
(* Claims about the catalog fetch and the order of the calls (Spec).       *)
(***************************************************************************)
\* items a marketplace serves per page in this run
PerPage == Min(PageLimit(entry), pageSize)

\* pages it takes to serve the catalog of target t (an empty catalog is
\* served as one empty page)
Pages(t) == IF catalog[t] = <<>> THEN 1 ELSE Ceil(Len(catalog[t]), PerPage)

\* get_offer_ids has just returned: the step after it is about to run
JustFetched ==
    /\ outcome = "running"
    /\ step > 1
    /\ Program(entry)[step - 1].op = "get_offer_ids"

FetchedTarget == Program(entry)[step - 1].target

\* C9: each page request passes the cursor the previous page returned, the
\* loop stops on the marketplace's completion signal, after the last page
\* and not before, and get_offer_ids returns the SKUs of all pages in page
\* order.
C9_FetchLoop ==
    /\ \A t \in {"OZON", "FBS", "DBS"} :
          LET reqs == CallsOf("get_product_list", t)
          IN  /\ Len(reqs) <= Pages(t)
              /\ \A k \in 1..Len(reqs) : reqs[k].cursor = (k - 1) * PerPage
    /\ JustFetched =>
          /\ offer_ids = catalog[FetchedTarget]
          /\ Len(OkCallsOf("get_product_list", FetchedTarget)) = Pages(FetchedTarget)

\* the DBS catalog of market.main came in two pages, the OZON catalog too
C9_Witness ==
    /\ JustFetched
    /\ Pages(FetchedTarget) = 2
    /\ Len(offer_ids) = 2
    /\ entry \in {"market.main", "seller.main"}
    /\ FetchedTarget \in {"DBS", "OZON"}

\* C10: calls are sequential and ordered per target: no batch is pushed
\* before the target's catalog fetch got its last page; stock batches go
\* out in chunk order, one finished call after the other; the price step
\* of a target starts only when all its stock batches are pushed.
C10_CallOrder ==
    /\ \A k \in 1..Len(calls) :
          calls[k].op \in {"update_stocks", "update_price"} =>
             /\ Len(SelectSeq(SubSeq(calls, 1, k - 1),
                       LAMBDA c : c.op = "get_product_list" /\ c.ok
                                   /\ c.target = calls[k].target))
                   = Pages(calls[k].target)
             /\ \A m \in (k + 1)..Len(calls) :
                   ~(calls[m].op = "get_product_list" /\ calls[m].target = calls[k].target)
    /\ \A t \in {"OZON", "FBS", "DBS"} :
          LET sent == CallsOf("update_stocks", t)
          IN  \A j \in 1..Len(sent) :
                 /\ sent[j].index = j - 1
                 /\ j < Len(sent) => sent[j].ok
                 /\ (outcome = "running" /\ target = t) =>
                       sent[j].batch = Divide(stocks, StockBatch(entry))[j]
    /\ (IsMain /\ outcome = "running"
        /\ pc \in {"create_prices", "update_price", "upload_prices"}) =>
          Len(OkCallsOf("update_stocks", target))
             = Len(Divide(stocks, StockBatch(entry)))

\* seller.main is about to reconcile prices after two stock batches
C10_Witness ==
    /\ entry = "seller.main" /\ outcome = "running" /\ pc = "create_prices"
    /\ Len(OkCallsOf("update_stocks", "OZON")) = 2
    /\ OkCallsOf("update_stocks", "OZON")[2].index = 1


(***************************************************************************)
(* Claims about prices without digits (Spec).                              *)
(***************************************************************************)
\* the price text has no digit before its first "."
NoDigitBeforeDot(price) ==
    \A k \in 1..Len(price) :
       price[k] \in Digits => \E j \in 1..(k - 1) : price[j] = "."

\* the codes of the inventory records with such a price
CodesWithoutPrice(inv) ==
    {inv[k].code : k \in {j \in 1..Len(inv) : NoDigitBeforeDot(inv[j].price)}}

\* a price entry whose price is the empty text or zero
EmptyOrZeroPrice(e) ==
    IF Variant(entry) = "seller" THEN e.price = <<>> ELSE e.price.value = 0

\* C11: a matched record whose price has no digit before the first "." is
\* a data error: create_prices emits no entry with an empty or zero price
\* for its SKU, and update_price is never handed one.
C11_NoEmptyPriceEntry ==
    /\ \A k \in 1..Len(prices) :
          PriceSku(prices[k]) \in CodesWithoutPrice(watch_remnants) =>
             ~EmptyOrZeroPrice(prices[k])
    /\ \A c \in 1..Len(calls) :
          calls[c].op = "update_price" =>
             \A k \in 1..Len(calls[c].batch) :
                PriceSku(calls[c].batch[k]) \in CodesWithoutPrice(watch_remnants) =>
                   ~EmptyOrZeroPrice(calls[c].batch[k])


(***************************************************************************)
(* Claims about repeated reconciliation (SpecReconcile).                   *)
(***************************************************************************)
\* the call ran on a list fetched for it: the first call of the caller,
\* or a later one that fetched anew
OnFetched(k) == k = 1 \/ history[k].fresh

\* two calls of the same function, each on a freshly fetched catalog
SameCallTwice(a, b) ==
    /\ a < b
    /\ history[a].op = history[b].op
    /\ OnFetched(a) /\ OnFetched(b)

IsMarketStocks(k) == Variant(entry) = "market" /\ history[k].op = "create_stocks"

\* a market stock entry without its updatedAt stamp
Unstamped(e) ==
    [sku |-> e.sku, warehouseId |-> e.warehouseId,
     count |-> e.items[1].count, type |-> e.items[1].type,
     items |-> Len(e.items)]

\* the payload of a call, market's stock entries without their stamps
WithoutStamps(k) ==
    LET p == history[k].payload
    IN  IF IsMarketStocks(k) THEN [j \in 1..Len(p) |-> Unstamped(p[j])] ELSE p

\* C12 as stated: two reconciliations of one inventory on a freshly fetched
\* identical catalog, at any two moments, give identical payloads.
C12_IdenticalPayloads ==
    \A a, b \in 1..Len(history) :
       SameCallTwice(a, b) =>
          /\ history[a].raised = history[b].raised
          /\ history[a].payload = history[b].payload

\* C12 amended: on a freshly fetched catalog each time, the two payloads
\* are identical, field for field and in the same order, except for the
\* updatedAt stamp of market's stock entries, which in every entry of a
\* payload is the second of its call: those payloads are identical when
\* both calls fall in the same second and differ in updatedAt alone
\* otherwise.  The fresh fetch is needed: a second create_stocks on the
\* list the first one left repeats the payload only if the first one
\* matched nothing.
C12_IdenticalButForStamp ==
    /\ \A a, b \in 1..Len(history) :
          SameCallTwice(a, b) =>
             LET pa == history[a].payload
                 pb == history[b].payload
             IN  /\ history[a].raised = history[b].raised
                 /\ WithoutStamps(a) = WithoutStamps(b)
                 /\ IF IsMarketStocks(a)
                    THEN /\ \A k \in 1..Len(pa) :
                               pa[k].items[1].updatedAt = history[a].date
                         /\ \A k \in 1..Len(pb) :
                               pb[k].items[1].updatedAt = history[b].date
                         /\ (history[a].date = history[b].date \/ pa = <<>>) <=> pa = pb
                    ELSE pa = pb
    /\ \A b \in 2..Len(history) :
          ( /\ history[b - 1].op = "create_stocks" /\ ~history[b - 1].raised
            /\ history[b].op = "create_stocks" /\ ~history[b].fresh ) =>
             ( WithoutStamps(b - 1) = WithoutStamps(b)
                  <=> history[b - 1].offer_ids_out = history[b - 1].offer_ids_in )

\* market's create_stocks ran twice, each time on a freshly fetched catalog
\* of which the first call had depleted its list, at two different seconds
C12_Witness ==
    \E a, b \in 1..Len(history) :
       /\ SameCallTwice(a, b)
       /\ IsMarketStocks(a)
       /\ history[b].fresh
       /\ history[a].offer_ids_out # history[a].offer_ids_in
       /\ history[a].date # history[b].date
       /\ Len(history[a].payload) = 2
       /\ ~history[a].raised


(***************************************************************************)
(* Claim about invalid chunk sizes (SpecDivide).                           *)
(***************************************************************************)
\* C13: divide with a chunk size n <= 0 fails with an invalid-argument
\* error: it yields no chunk and does not end silently with no chunks.
C13_InvalidChunkSizeFails ==
    n <= 0 => (chunks = <<>> /\ gen \in {"created", "raised"})

(***************************************************************************)
(* Claim about what the reconciliation calls change (SpecReconcile).       *)
(***************************************************************************)
\* how many inventory records carry the code
Records(code) ==
    Cardinality({w \in 1..Len(watch_remnants) : watch_remnants[w].code = code})

\* the places of ids that no record takes out: each record with a code
\* takes out the first place of the code that is still there
KeptPlaces(ids) ==
    {j \in 1..Len(ids) :
        Cardinality({a \in 1..j : ids[a] = ids[j]}) > Records(ids[j])}

\* ids at its kept places, in the order of ids
LeftOver(ids) ==
    LET P == KeptPlaces(ids)
    IN  [k \in 1..Cardinality(P) |->
            ids[CHOOSE j \in P : Cardinality({a \in P : a <= j}) = k]]

\* the entries create_stocks appended after its loop over the inventory
ZeroFilled(h) ==
    SubSeq(h.payload, Len(h.payload) - Len(h.offer_ids_out) + 1, Len(h.payload))

\* C14: create_stocks depletes the caller's own offer_ids list, taking out
\* the first occurrence of every matched code: when it returns, the list
\* holds exactly the catalog SKUs that got a zero-fill entry, in their
\* original order; create_prices leaves the list as it was; neither call
\* changes the inventory records.
C14_CallerListDepleted ==
    /\ [](\A k \in 1..Len(history) :
             LET h == history[k]
             IN  /\ (h.op = "create_stocks" /\ ~h.raised) =>
                        /\ h.offer_ids_out = LeftOver(h.offer_ids_in)
                        /\ Len(h.offer_ids_out) <= Len(h.payload)
                        /\ \A j \in 1..Len(h.offer_ids_out) :
                              /\ SkuOf(ZeroFilled(h)[j]) = h.offer_ids_out[j]
                              /\ QtyOf(ZeroFilled(h)[j]) = 0
                        /\ \A j \in 1..(Len(h.payload) - Len(h.offer_ids_out)) :
                              SkuOf(h.payload[j]) \in Codes(watch_remnants)
                 /\ h.op = "create_prices" => h.offer_ids_out = h.offer_ids_in
                 /\ k = Len(history) => offer_ids = h.offer_ids_out)
    /\ [][watch_remnants' = watch_remnants]_vars

\* create_stocks took the first of the two listings of the matched SKU out
\* of the caller's list, and create_prices then ran on what was left
C14_Witness ==
    /\ Len(history) = 2
    /\ history[1].op = "create_stocks" /\ ~history[1].raised
    /\ history[1].offer_ids_in = <<"A", "B", "A">>
    /\ history[1].offer_ids_out = <<"B", "A">>
    /\ history[2].op = "create_prices" /\ ~history[2].fresh
    /\ history[2].offer_ids_in = history[1].offer_ids_out
    /\ offer_ids = history[1].offer_ids_out

=============================================================================
